---- MODULE Spec2Model ----
(***************************************************************************)
(* Bank-reconciliation upload pipeline (upload/tasks.py, upload/models.py, *)
(* upload/migrations/0001_initial.py): column cleaning and renaming, row   *)
(* conversion, in-chunk duplicate tracking, and the loader's existence     *)
(* check followed by per-sub-batch conflict-tolerant inserts.              *)
(*                                                                         *)
(* Encoding of Python values:                                              *)
(*   a cell read with dtype=str is a record [k, s, v]: k = "nan" for a     *)
(*   missing cell, k = "str" for text s that is not a number, k = "num"    *)
(*   for decimal text whose value is v hundredths ("100.50" is v = 10050); *)
(*   an optional integer is [isnull, v]; a float is [nan, v] with v in     *)
(*   hundredths; a timestamp is [nat, ymd].                                *)
(***************************************************************************)
EXTENDS Integers, Sequences, FiniteSets, TLC

\* ------------------------------------------------------------- bounds
\* Largest order / reference number in the rows of the chunk and concurrent
\* specifications.
MaxKey == 2
\* Largest order / reference number in the rows of the pipeline specification.
MaxPlainKey == 3
\* Most files of one invocation of the pipeline specification.
MaxFiles == 2
\* Most data rows over all files of one invocation of the pipeline specification.
MaxRows == 4
\* Most rows of the single chunk of the chunk specification.
MaxChunkRows == 2
\* Most rows of each file of the concurrent specification.
MaxConcRows == 1
\* Most characters of a header that is no registry column.
MaxHeaderLen == 3

\* ------------------------------------------------------------- exceptions
\* BANK_MAPPINGS[bank_name] for a bank without an entry.
KeyErrorBank == "KeyError: bank_name"
\* dropna(subset=...) for a column the frame does not have.
KeyErrorColumn == "KeyError: column"
\* float() of text that is not a number.
ValueErrorFloat == "ValueError: could not convert string to float"
\* raise ValueError("Unsupported file format")
ValueErrorFormat == "ValueError: Unsupported file format"
\* Whatever the insert of a sub-batch raises.
StoreError == "StoreError"

\* ------------------------------------------------------------- cells
NaN == [k |-> "nan", s |-> "", v |-> 0]
Text(s) == [k |-> "str", s |-> s, v |-> 0]
Num(v) == [k |-> "num", s |-> "", v |-> v]
\* The decimal text of the integer n.
IntText(n) == Num(n * 100)

None == [isnull |-> TRUE, v |-> 0]
SomeInt(n) == [isnull |-> FALSE, v |-> n]

FloatNaN == [nan |-> TRUE, v |-> 0]
Float(v) == [nan |-> FALSE, v |-> v]

NaT == [nat |-> TRUE, ymd |-> 0]
Timestamp(ymd) == [nat |-> FALSE, ymd |-> ymd]

\* pd.isna(val)
IsNa(val) == val.k = "nan"

\* int(x) of a float x given in hundredths: truncation toward zero.
Trunc(v) == IF v >= 0 THEN v \div 100 ELSE -((-v) \div 100)

\* convert_to_int: None for a missing or empty cell, int(float(val)) for a
\* number, None (after logging) when float(val) raises ValueError.
convert_to_int(val) ==
    IF IsNa(val) \/ (val.k = "str" /\ val.s = "") THEN None
    ELSE IF val.k = "num" THEN SomeInt(Trunc(val.v))
    ELSE None

\* float(x) raises ValueError on text that is not a number.
FloatRaises(val) == val.k = "str"

\* Mutant: the fraction of the amount is lost.
ToFloatWhole(val) ==
    IF IsNa(val) THEN FloatNaN ELSE Float(Trunc(val.v) * 100)

\* float(x): nan for a missing cell (float(nan) is nan), the number otherwise.
ToFloat(val) == IF IsNa(val) THEN FloatNaN ELSE Float(val.v)

\* Python truthiness of an optional integer: None and 0 are falsy.
Truthy(x) == ~x.isnull /\ x.v # 0

\* The day-first looking texts the generated files use; pandas reads them
\* month first.
DateTexts == {"01-01-2024", "05-01-2024"}

ParseDate(s) ==
    CASE s = "01-01-2024" -> 20240101
      [] s = "05-01-2024" -> 20240501
      [] OTHER -> 0

\* pd.to_datetime(x, errors='coerce'): NaT for a missing or unparseable cell.
to_datetime(val) ==
    IF val.k = "str" /\ val.s \in DateTexts THEN Timestamp(ParseDate(val.s))
    ELSE NaT

\* ------------------------------------------------------------- headers
\* A raw header is a sequence of tokens: a run of ordinary characters, or a
\* single separator character.
Whitespace == {" ", "\t"}
Punctuation == {".", "_"}

RECURSIVE Join(_)
Join(tokens) ==
    IF tokens = <<>> THEN "" ELSE Head(tokens) \o Join(Tail(tokens))

NotWhitespace(t) == t \notin Whitespace
NotPunctuation(t) == t \notin Punctuation

\* ''.join(part for part in column_name.split() if part)
JoinParts(column_name) == SelectSeq(column_name, NotWhitespace)

\* Mutant: only '.' is dropped.
DropDotsOnly(name) ==
    LET NotDot(t) == t # "."
    IN  SelectSeq(name, NotDot)

\* ''.join(char for char in cleaned_name if char not in ['.', '_'])
DropPunctuation(name) == SelectSeq(name, NotPunctuation)

\* str.strip(): leading and trailing whitespace is removed.
RECURSIVE LStrip(_)
LStrip(name) ==
    IF name # <<>> /\ Head(name) \in Whitespace THEN LStrip(Tail(name))
    ELSE name
RECURSIVE RStrip(_)
RStrip(name) ==
    IF name # <<>> /\ name[Len(name)] \in Whitespace
    THEN RStrip(SubSeq(name, 1, Len(name) - 1))
    ELSE name
Strip(name) == RStrip(LStrip(name))

\* clean_column_name, token by token.
CleanedName(column_name) == Strip(DropPunctuation(JoinParts(column_name)))

\* clean_column_name: split on whitespace and join, drop '.' and '_', strip.
clean_column_name(column_name) == Join(CleanedName(column_name))

H_TXN_DATE == <<"TXN", " ", "DATE">>
H_IRCTC_ORDER_NO == <<"IRCTC", " ", "ORDER", " ", "NO", ".">>
H_BANK_BOOKING_REF_NO == <<"BANK", " ", "BOOKING", " ", "REF", ".", "NO", ".">>
H_BOOKING_AMOUNT == <<"BOOKING", " ", "AMOUNT">>
H_CREDITED_ON == <<"CREDITED", " ", "ON">>
H_REFUND_DATE == <<"REFUND", " ", "DATE">>
H_BANK_REFUND_REF_NO == <<"BANK", " ", "REFUND", " ", "REF", ".", "NO", ".">>
H_REFUND_AMOUNT == <<"REFUND", " ", "AMOUNT">>
H_DEBITED_ON == <<"DEBITED", " ", "ON">>

\* BANK_MAPPINGS['karur_vysya'][kind]['columns']
BookingColumns ==
    <<H_TXN_DATE, H_IRCTC_ORDER_NO, H_BANK_BOOKING_REF_NO, H_BOOKING_AMOUNT,
      H_CREDITED_ON>>
RefundColumns ==
    <<H_REFUND_DATE, H_IRCTC_ORDER_NO, H_BANK_BOOKING_REF_NO,
      H_BANK_REFUND_REF_NO, H_REFUND_AMOUNT, H_DEBITED_ON>>

\* The headers of the generated files.
\* A header with the columns of both kinds.
AllColumns ==
    BookingColumns \o <<H_REFUND_DATE, H_BANK_REFUND_REF_NO, H_REFUND_AMOUNT,
                        H_DEBITED_ON>>
\* A booking header without the amount column.
NoAmountColumns ==
    <<H_TXN_DATE, H_IRCTC_ORDER_NO, H_BANK_BOOKING_REF_NO, H_CREDITED_ON>>

Layouts == {BookingColumns, RefundColumns, AllColumns, NoAmountColumns}

\* The characters of the headers that are no registry column, and the sheets
\* with one such column: every name of at most MaxHeaderLen characters.
HeaderChars == {" ", "\t", ".", "_", "a", "B"}
HeaderNames == UNION { [1..m -> HeaderChars] : m \in 0..MaxHeaderLen }
OddHeaders == { <<name>> : name \in HeaderNames }

\* BANK_MAPPINGS[bank][kind]['column_mapping'] as a set of <<key, value>>.
BookingColumnMapping ==
    { <<"IRCTCORDERNO", "irctc_order_no">>,
      <<"BANKBOOKINGREFNO", "bank_booking_ref_no">>,
      <<"BOOKINGAMOUNT", "booking_amount">>,
      <<"TXNDATE", "transaction_date">>,
      <<"CREDITEDON", "credited_date">> }
RefundColumnMapping ==
    { <<"IRCTCORDERNO", "irctc_order_no">>,
      <<"REFUNDAMOUNT", "refund_amount">>,
      <<"DEBITEDON", "debited_date">>,
      <<"REFUNDDATE", "refund_date">>,
      <<"BANKBOOKINGREFNO", "bank_booking_ref_no">>,
      <<"BANKREFUNDREFNO", "bank_refund_ref_no">> }

\* Mutant: every bank of the form has an entry.
BANK_MAPPINGS_AllBanks == {"karur_vysya", "hdfc", "icici"}

\* The banks BANK_MAPPINGS has an entry for.
BANK_MAPPINGS == {"karur_vysya"}

\* BANK_CODE_MAPPING.get(bank_name)
BANK_CODE_MAPPING(bank_name) ==
    CASE bank_name = "hdfc" -> SomeInt(101)
      [] bank_name = "icici" -> SomeInt(102)
      [] bank_name = "karur_vysya" -> SomeInt(40)
      [] OTHER -> None

\* ------------------------------------------------------------- data frames
\* A data frame is [columns, rows]: the column labels and, per row, the cells
\* in column order. Rows keep their position in the chunk as their index.
HasColumn(columns, label) == \E c \in 1..Len(columns) : columns[c] = label
ColumnIndex(columns, label) == CHOOSE c \in 1..Len(columns) : columns[c] = label

\* cleaned_columns = [clean_column_name(col) for col in df_chunk.columns]
CleanedColumns(raw) == [c \in 1..Len(raw) |-> clean_column_name(raw[c])]

\* The dictionary handed to df_chunk.rename: the five booking entries and the
\* refund entries whose key is a column of the chunk.
RenameMapping(cleaned) ==
    BookingColumnMapping
      \cup { kv \in RefundColumnMapping : HasColumn(cleaned, kv[1]) }

Rename(label, mapping) ==
    IF \E kv \in mapping : kv[1] = label
    THEN (CHOOSE kv \in mapping : kv[1] = label)[2]
    ELSE label

RenamedColumns(raw) ==
    LET cleaned == CleanedColumns(raw)
    IN  [c \in 1..Len(cleaned) |-> Rename(cleaned[c], RenameMapping(cleaned))]

\* df_chunk.columns after the rename, per header of a generated file.
ColumnsOf == [header \in Layouts \cup OddHeaders |-> RenamedColumns(header)]

\* row[label] / row.get(label)
Cell(columns, row, label) == row[ColumnIndex(columns, label)]

common_columns == <<"irctc_order_no", "bank_booking_ref_no">>

\* df_chunk.dropna(subset=common_columns) raises KeyError for a label that is
\* no column of the frame.
DropnaRaises(columns) ==
    \E c \in 1..Len(common_columns) : ~HasColumn(columns, common_columns[c])

\* Indexes of the rows dropna keeps, in order.
RECURSIVE KeptFrom(_, _, _)
KeptFrom(columns, rows, r) ==
    IF r > Len(rows) THEN <<>>
    ELSE IF \E c \in 1..Len(common_columns) :
                IsNa(Cell(columns, rows[r], common_columns[c]))
         THEN KeptFrom(columns, rows, r + 1)
         ELSE <<r>> \o KeptFrom(columns, rows, r + 1)

Dropna(columns, rows) == KeptFrom(columns, rows, 1)

expected_booking_columns ==
    <<"transaction_date", "irctc_order_no", "bank_booking_ref_no",
      "booking_amount", "credited_date">>
expected_refund_columns ==
    <<"refund_date", "irctc_order_no", "bank_booking_ref_no",
      "bank_refund_ref_no", "refund_amount", "debited_date">>

HasAll(columns, expected) ==
    \A c \in 1..Len(expected) : HasColumn(columns, expected[c])

has_required_booking_columns(columns) == HasAll(columns, expected_booking_columns)
has_required_refund_columns(columns) == HasAll(columns, expected_refund_columns)

\* ------------------------------------------------------------- row loops
\* Mutant: only the reference number is looked up.
IsDuplicateBookingRefOnly(irctc_order_no, bank_booking_ref_no, seen) ==
    bank_booking_ref_no \in seen

\* The duplicate test of the booking loop: both numbers are looked up in the
\* one set seen_booking_orders.
IsDuplicateBooking(irctc_order_no, bank_booking_ref_no, seen_booking_orders) ==
    irctc_order_no \in seen_booking_orders
      \/ bank_booking_ref_no \in seen_booking_orders

\* The duplicate test of the refund loop.
IsDuplicateRefund(irctc_order_no, bank_refund_ref_no, seen_refund_orders) ==
    irctc_order_no \in seen_refund_orders
      \/ bank_refund_ref_no \in seen_refund_orders

\* transaction_data of a booking row (the float() call is guarded by the
\* caller with FloatRaises).
BookingData(columns, row, bank_name) ==
    [ bank_code |-> BANK_CODE_MAPPING(bank_name),
      irctc_order_no |-> convert_to_int(Cell(columns, row, "irctc_order_no")),
      bank_booking_ref_no |->
          convert_to_int(Cell(columns, row, "bank_booking_ref_no")),
      booking_amount |-> ToFloat(Cell(columns, row, "booking_amount")),
      transaction_date |-> to_datetime(Cell(columns, row, "transaction_date")),
      credited_date |-> to_datetime(Cell(columns, row, "credited_date")) ]

\* transaction_data of a refund row.
RefundData(columns, row, bank_name) ==
    [ bank_code |-> BANK_CODE_MAPPING(bank_name),
      irctc_order_no |-> convert_to_int(Cell(columns, row, "irctc_order_no")),
      bank_booking_ref_no |->
          convert_to_int(Cell(columns, row, "bank_booking_ref_no")),
      bank_refund_ref_no |->
          convert_to_int(Cell(columns, row, "bank_refund_ref_no")),
      refund_amount |-> ToFloat(Cell(columns, row, "refund_amount")),
      refund_date |-> to_datetime(Cell(columns, row, "refund_date")),
      debited_date |-> to_datetime(Cell(columns, row, "debited_date")) ]

\* The eligibility test before the append: both numbers truthy.
BookingEligible(data) ==
    Truthy(data.irctc_order_no) /\ Truthy(data.bank_booking_ref_no)
RefundEligible(data) ==
    Truthy(data.irctc_order_no) /\ Truthy(data.bank_refund_ref_no)

\* Mutant: the seen set is not empty when the loop starts.
LoopStartSeenKept ==
    [bulk |-> <<>>, index |-> <<>>, seen |-> {SomeInt(1)}, raised |-> FALSE]

\* The state of a row loop: the batch, the indexes of the rows whose record
\* was appended, the seen set, and whether float() raised.
LoopStart == [bulk |-> <<>>, index |-> <<>>, seen |-> {}, raised |-> FALSE]

\* for index, row in df_chunk.iterrows(): the booking loop over the kept rows
\* kept[k..], from loop state st.
RECURSIVE BookingLoop(_, _, _, _, _, _)
BookingLoop(columns, rows, kept, k, bank_name, st) ==
    IF k > Len(kept) \/ st.raised THEN st
    ELSE
      LET row == rows[kept[k]]
          irctc_order_no == convert_to_int(Cell(columns, row, "irctc_order_no"))
          bank_booking_ref_no ==
              convert_to_int(Cell(columns, row, "bank_booking_ref_no"))
          data == BookingData(columns, row, bank_name)
      IN  IF IsDuplicateBooking(irctc_order_no, bank_booking_ref_no, st.seen)
          THEN BookingLoop(columns, rows, kept, k + 1, bank_name, st)
          ELSE IF FloatRaises(Cell(columns, row, "booking_amount"))
          THEN [st EXCEPT !.raised = TRUE]
          ELSE IF BookingEligible(data)
          THEN BookingLoop(columns, rows, kept, k + 1, bank_name,
                   [st EXCEPT !.bulk = Append(@, data),
                              !.index = Append(@, kept[k]),
                              !.seen = @ \cup {irctc_order_no}])
          ELSE BookingLoop(columns, rows, kept, k + 1, bank_name, st)

\* The refund loop over the kept rows kept[k..], from loop state st.
RECURSIVE RefundLoop(_, _, _, _, _, _)
RefundLoop(columns, rows, kept, k, bank_name, st) ==
    IF k > Len(kept) \/ st.raised THEN st
    ELSE
      LET row == rows[kept[k]]
          irctc_order_no == convert_to_int(Cell(columns, row, "irctc_order_no"))
          bank_refund_ref_no ==
              convert_to_int(Cell(columns, row, "bank_refund_ref_no"))
          data == RefundData(columns, row, bank_name)
      IN  IF IsDuplicateRefund(irctc_order_no, bank_refund_ref_no, st.seen)
          THEN RefundLoop(columns, rows, kept, k + 1, bank_name, st)
          ELSE IF FloatRaises(Cell(columns, row, "refund_amount"))
          THEN [st EXCEPT !.raised = TRUE]
          ELSE IF RefundEligible(data)
          THEN RefundLoop(columns, rows, kept, k + 1, bank_name,
                   [st EXCEPT !.bulk = Append(@, data),
                              !.index = Append(@, kept[k]),
                              !.seen = @ \cup {irctc_order_no}])
          ELSE RefundLoop(columns, rows, kept, k + 1, bank_name, st)

\* Mutant: the refund loop runs for every transaction type.
RefundGateAnyType(transaction_type, columns) == has_required_refund_columns(columns)

\* The gates in front of the two loops.
BookingGate(transaction_type, columns) ==
    transaction_type \in {"both", "booking"}
      /\ has_required_booking_columns(columns)
RefundGate(transaction_type, columns) ==
    transaction_type \in {"both", "refund"}
      /\ has_required_refund_columns(columns)

\* process_dataframe_chunk from dropna up to its first store call, on the
\* renamed columns and the indexes of the rows dropna keeps: the exception it
\* raises ("" for none), whether it returned because dropna left no row, and
\* the two batches with the indexes of their rows.
FrameResult(columns, rows, kept, bank_name, transaction_type) ==
    LET nothing == [exc |-> "", skipped |-> FALSE,
                    bookings |-> LoopStart, refunds |-> LoopStart]
        b == IF BookingGate(transaction_type, columns)
             THEN BookingLoop(columns, rows, kept, 1, bank_name, LoopStart)
             ELSE LoopStart
        r == IF ~b.raised /\ RefundGate(transaction_type, columns)
             THEN RefundLoop(columns, rows, kept, 1, bank_name, LoopStart)
             ELSE LoopStart
    IN  IF DropnaRaises(columns)
        THEN [nothing EXCEPT !.exc = KeyErrorColumn]
        ELSE IF kept = <<>> THEN [nothing EXCEPT !.skipped = TRUE]
        ELSE IF b.raised \/ r.raised
        THEN [nothing EXCEPT !.exc = ValueErrorFloat]
        ELSE [nothing EXCEPT !.bookings = b, !.refunds = r]

\* process_dataframe_chunk up to its first store call: the mapping lookup, the
\* rename and dropna, each done once, and then the rest.
ChunkResult(header, rows, bank_name, transaction_type) ==
    IF bank_name \notin BANK_MAPPINGS
    THEN [exc |-> KeyErrorBank, skipped |-> FALSE,
          bookings |-> LoopStart, refunds |-> LoopStart]
    ELSE CHOOSE result \in
           UNION { { FrameResult(columns, rows, kept, bank_name, transaction_type) :
                       kept \in { IF DropnaRaises(columns) THEN <<>>
                                  ELSE Dropna(columns, rows) } } :
                   columns \in { ColumnsOf[header] } } : TRUE

\* ------------------------------------------------------------- the store
\* Mutant: no column is unique.
NoUnique == {}

\* The columns the migration creates with unique=True.
BookingUnique == {"irctc_order_no", "bank_booking_ref_no"}
RefundUnique == {"bank_booking_ref_no", "bank_refund_ref_no"}

UniqueFields(kind) == IF kind = "booking" THEN BookingUnique ELSE RefundUnique

\* A row violates a uniqueness constraint when a stored row has the same
\* non-null value in a unique column.
Conflicts(table, obj, unique) ==
    \E n \in 1..Len(table) : \E f \in unique :
        ~obj[f].isnull /\ table[n][f] = obj[f]

\* bulk_create(objs, ignore_conflicts=True): the rows are inserted in order and
\* a row that violates a uniqueness constraint is skipped.
RECURSIVE bulk_create(_, _, _)
bulk_create(table, objs, unique) ==
    IF objs = <<>> THEN table
    ELSE IF Conflicts(table, Head(objs), unique)
         THEN bulk_create(table, Tail(objs), unique)
         ELSE bulk_create(Append(table, Head(objs)), Tail(objs), unique)

\* Mutant: the first row of the failed sub-batch stays.
RolledBackKeepsHead(table, objs) == Append(table, Head(objs))

\* The table after a sub-batch whose insert raised: transaction.atomic() rolls
\* the sub-batch back.
RolledBack(table, objs) == table

\* ------------------------------------------------------------- the loader
\* batch_size = 500 in the source, scaled down.
batch_size == 2
\* chunk_size = 50000 (and chunksize=50000) in the source, scaled down.
chunk_size == 3

Min(a, b) == IF a < b THEN a ELSE b

OrderNos(transactions) ==
    { transactions[n].irctc_order_no : n \in 1..Len(transactions) }

\* cls.objects.filter(irctc_order_no__in=...).values_list('irctc_order_no')
existing_orders(table, transactions) ==
    OrderNos(table) \cap OrderNos(transactions)

\* Mutant: nothing is filtered out.
NotExistingKeepsAll(transactions, existing) == transactions

NotExisting(transactions, existing) ==
    LET keep(tx) == tx.irctc_order_no \notin existing
    IN  SelectSeq(transactions, keep)

\* new_transactions = [tx for tx in transactions if ... not in existing_orders]
new_transactions_of(table, transactions) ==
    NotExisting(transactions, existing_orders(table, transactions))

\* Mutant: the slice is one short.
SubBatchShort(new, i) == SubSeq(new, i + 1, Min(i + batch_size, Len(new)) - 1)

\* new_transactions[i:i + batch_size]
SubBatch(new, i) == SubSeq(new, i + 1, Min(i + batch_size, Len(new)))

\* ------------------------------------------------------------- state
\* Two invocations of process_uploaded_files: run one after the other on the
\* same arguments (a re-run), or dispatched concurrently by the task queue.
Procs == {1, 2}

VARIABLES
    files,               \* per invocation: the list of files (header, rows)
    bank_name,           \* per invocation: the bank argument
    transaction_type,    \* per invocation: "booking", "refund" or "both"
    file_format,         \* per invocation: the format tag
    tasks,               \* how many invocations the task queue dispatches
    concurrent,          \* whether the queue runs the invocations concurrently
    pc,                  \* per invocation: where its control is
    file_index,          \* per invocation: enumerate() index of the file
    start_row,           \* per invocation: first row of the chunk, 0-based
    bulk_data_bookings,  \* per invocation: the booking batch of the chunk
    bulk_data_refunds,   \* per invocation: the refund batch of the chunk
    accepted_bookings,   \* per invocation: row indexes behind the booking batch
    accepted_refunds,    \* per invocation: row indexes behind the refund batch
    new_transactions,    \* per invocation: the loader's filtered candidates
    i,                   \* per invocation: the loader's loop variable
    call_table,          \* per invocation: the table as the loader call found it
    error,               \* per invocation: the exception that ended it, or ""
    BookingTransaction,  \* the booking table, rows in insertion order
    RefundTransaction    \* the refund table, rows in insertion order

vars ==
    << files, bank_name, transaction_type, file_format, tasks, concurrent, pc,
       file_index, start_row, bulk_data_bookings, bulk_data_refunds,
       accepted_bookings, accepted_refunds, new_transactions, i, call_table,
       error, BookingTransaction, RefundTransaction >>

inputs ==
    << files, bank_name, transaction_type, file_format, tasks, concurrent >>
batches ==
    << bulk_data_bookings, bulk_data_refunds, accepted_bookings,
       accepted_refunds >>
tables == << BookingTransaction, RefundTransaction >>

Table(kind) == IF kind = "booking" THEN BookingTransaction ELSE RefundTransaction
Batch(p, kind) ==
    IF kind = "booking" THEN bulk_data_bookings[p] ELSE bulk_data_refunds[p]
LoadPc(kind) == IF kind = "booking" THEN "load_booking" ELSE "load_refund"
InsertPc(kind) == IF kind = "booking" THEN "insert_booking" ELSE "insert_refund"
\* Where control goes when the loader call for kind is over or not made.
AfterLoad(kind) == IF kind = "booking" THEN "load_refund" ELSE "chunk_end"

CurrentFile(p) == files[p][file_index[p] + 1]
total_rows(p) == Len(CurrentFile(p).rows)
\* df.iloc[start_row:start_row + chunk_size], and the csv reader's next chunk.
ChunkRows(p) ==
    SubSeq(CurrentFile(p).rows, start_row[p] + 1,
           Min(start_row[p] + chunk_size, total_rows(p)))
ChunkOf(p) ==
    ChunkResult(CurrentFile(p).header, ChunkRows(p), bank_name[p],
                transaction_type[p])

\* ------------------------------------------------------------- orchestrator
\* Mutant: the error is recorded and the file is tried again.
RaiseAndRetry(p, exc) ==
    /\ pc' = [pc EXCEPT ![p] = "file"]
    /\ error' = [error EXCEPT ![p] = exc]

Raise(p, exc) ==
    /\ pc' = [pc EXCEPT ![p] = "failed"]
    /\ error' = [error EXCEPT ![p] = exc]

\* The task starts: the try block and the loop over the files are entered. A
\* re-run starts once the run before it has returned.
Start(p) ==
    /\ pc[p] = "idle"
    /\ p <= tasks
    /\ concurrent \/ \A q \in Procs : q < p => pc[q] = "done"
    /\ pc' = [pc EXCEPT ![p] = "file"]
    /\ UNCHANGED << inputs, file_index, start_row, batches, new_transactions, i,
                    call_table, error, tables >>

\* The loop over the files is exhausted: the task returns.
Return(p) ==
    /\ pc[p] = "file"
    /\ file_index[p] >= Len(files[p])
    /\ pc' = [pc EXCEPT ![p] = "done"]
    /\ UNCHANGED << inputs, file_index, start_row, batches, new_transactions, i,
                    call_table, error, tables >>

\* file_format == 'excel' and the sheet has rows: the chunk loop starts.
ReadExcel(p) ==
    /\ pc[p] = "file"
    /\ file_index[p] < Len(files[p])
    /\ file_format[p] = "excel"
    /\ total_rows(p) # 0
    /\ pc' = [pc EXCEPT ![p] = "chunk"]
    /\ start_row' = [start_row EXCEPT ![p] = 0]
    /\ UNCHANGED << inputs, file_index, batches, new_transactions, i,
                    call_table, error, tables >>

\* file_format == 'excel' and total_rows == 0: the error is logged and the
\* task returns.
EmptyExcel(p) ==
    /\ pc[p] = "file"
    /\ file_index[p] < Len(files[p])
    /\ file_format[p] = "excel"
    /\ total_rows(p) = 0
    /\ pc' = [pc EXCEPT ![p] = "done"]
    /\ UNCHANGED << inputs, file_index, start_row, batches, new_transactions, i,
                    call_table, error, tables >>

\* file_format == 'csv': the chunk iterator is created.
ReadCsv(p) ==
    /\ pc[p] = "file"
    /\ file_index[p] < Len(files[p])
    /\ file_format[p] = "csv"
    /\ pc' = [pc EXCEPT ![p] = "chunk"]
    /\ start_row' = [start_row EXCEPT ![p] = 0]
    /\ UNCHANGED << inputs, file_index, batches, new_transactions, i,
                    call_table, error, tables >>

\* Mutant: a format that is neither 'excel' nor 'csv' is read as csv.
UnsupportedFormatReadAsCsv(p) ==
    /\ pc[p] = "file"
    /\ file_index[p] < Len(files[p])
    /\ file_format[p] \notin {"excel", "csv"}
    /\ pc' = [pc EXCEPT ![p] = "chunk"]
    /\ start_row' = [start_row EXCEPT ![p] = 0]
    /\ UNCHANGED << inputs, file_index, batches, new_transactions, i,
                    call_table, error, tables >>

\* Neither 'excel' nor 'csv': ValueError("Unsupported file format").
UnsupportedFormat(p) ==
    /\ pc[p] = "file"
    /\ file_index[p] < Len(files[p])
    /\ file_format[p] \notin {"excel", "csv"}
    /\ Raise(p, ValueErrorFormat)
    /\ UNCHANGED << inputs, file_index, start_row, batches, new_transactions, i,
                    call_table, tables >>

\* The csv reader of a file without data rows yields one empty chunk, which
\* is logged and skipped.
SkipEmptyChunk(p) ==
    /\ pc[p] = "chunk"
    /\ file_format[p] = "csv"
    /\ total_rows(p) = 0
    /\ start_row[p] = 0
    /\ start_row' = [start_row EXCEPT ![p] = chunk_size]
    /\ UNCHANGED << inputs, pc, file_index, batches, new_transactions, i,
                    call_table, error, tables >>

\* The chunk loop of the file is exhausted: "File processing completed".
FileCompleted(p) ==
    /\ pc[p] = "chunk"
    /\ start_row[p] >= total_rows(p)
    /\ ~(file_format[p] = "csv" /\ total_rows(p) = 0 /\ start_row[p] = 0)
    /\ pc' = [pc EXCEPT ![p] = "file"]
    /\ file_index' = [file_index EXCEPT ![p] = @ + 1]
    /\ UNCHANGED << inputs, start_row, batches, new_transactions, i,
                    call_table, error, tables >>

\* process_dataframe_chunk raises before any store call.
ChunkRaises(p) ==
    /\ pc[p] = "chunk"
    /\ start_row[p] < total_rows(p)
    /\ \E res \in {ChunkOf(p)} :
           /\ res.exc # ""
           /\ Raise(p, res.exc)
    /\ UNCHANGED << inputs, file_index, start_row, batches, new_transactions, i,
                    call_table, tables >>

\* process_dataframe_chunk runs its row loops and reaches the loader calls, or
\* returns at once when dropna left no row.
ProcessChunk(p) ==
    /\ pc[p] = "chunk"
    /\ start_row[p] < total_rows(p)
    /\ \E res \in {ChunkOf(p)} :
           /\ res.exc = ""
           /\ bulk_data_bookings' =
                  [bulk_data_bookings EXCEPT ![p] = res.bookings.bulk]
           /\ accepted_bookings' =
                  [accepted_bookings EXCEPT ![p] = res.bookings.index]
           /\ bulk_data_refunds' =
                  [bulk_data_refunds EXCEPT ![p] = res.refunds.bulk]
           /\ accepted_refunds' =
                  [accepted_refunds EXCEPT ![p] = res.refunds.index]
           /\ pc' = [pc EXCEPT ![p] =
                        IF res.skipped THEN "chunk_end" ELSE "load_booking"]
    /\ UNCHANGED << inputs, file_index, start_row, new_transactions, i,
                    call_table, error, tables >>

\* if bulk_data_<kind> is empty the loader is not called.
NoLoad(p, kind) ==
    /\ pc[p] = LoadPc(kind)
    /\ Batch(p, kind) = <<>>
    /\ pc' = [pc EXCEPT ![p] = AfterLoad(kind)]
    /\ UNCHANGED << inputs, file_index, start_row, batches, new_transactions, i,
                    call_table, error, tables >>

\* bulk_create_<kind>_transactions starts: the existence query and the filter.
\* With nothing new it returns 0.
Query(p, kind) ==
    /\ pc[p] = LoadPc(kind)
    /\ Batch(p, kind) # <<>>
    /\ LET new == new_transactions_of(Table(kind), Batch(p, kind))
       IN  /\ new_transactions' = [new_transactions EXCEPT ![p] = new]
           /\ pc' = [pc EXCEPT ![p] =
                        IF new = <<>> THEN AfterLoad(kind) ELSE InsertPc(kind)]
    /\ i' = [i EXCEPT ![p] = 0]
    /\ call_table' = [call_table EXCEPT ![p] = Table(kind)]
    /\ UNCHANGED << inputs, file_index, start_row, batches, error, tables >>

\* Mutant: the rest of the list is inserted in one transaction.
InsertWholeList(p, kind) ==
    /\ pc[p] = InsertPc(kind)
    /\ LET after == bulk_create(Table(kind),
                                SubSeq(new_transactions[p], i[p] + 1,
                                       Len(new_transactions[p])),
                                UniqueFields(kind))
       IN  IF kind = "booking"
           THEN BookingTransaction' = after /\ UNCHANGED RefundTransaction
           ELSE RefundTransaction' = after /\ UNCHANGED BookingTransaction
    /\ i' = [i EXCEPT ![p] = Len(new_transactions[p])]
    /\ pc' = [pc EXCEPT ![p] = AfterLoad(kind)]
    /\ UNCHANGED << inputs, file_index, start_row, batches, new_transactions,
                    call_table, error >>

\* One sub-batch is inserted in its own transaction, which commits.
Insert(p, kind) ==
    /\ pc[p] = InsertPc(kind)
    /\ LET after == bulk_create(Table(kind), SubBatch(new_transactions[p], i[p]),
                                UniqueFields(kind))
       IN  IF kind = "booking"
           THEN BookingTransaction' = after /\ UNCHANGED RefundTransaction
           ELSE RefundTransaction' = after /\ UNCHANGED BookingTransaction
    /\ i' = [i EXCEPT ![p] = @ + batch_size]
    /\ pc' = [pc EXCEPT ![p] =
                 IF i[p] + batch_size < Len(new_transactions[p])
                 THEN InsertPc(kind) ELSE AfterLoad(kind)]
    /\ UNCHANGED << inputs, file_index, start_row, batches, new_transactions,
                    call_table, error >>

\* The insert of one sub-batch raises: its transaction is rolled back, the
\* error is logged and raised again, up to the caller of the task.
InsertRaises(p, kind) ==
    /\ pc[p] = InsertPc(kind)
    /\ LET after == RolledBack(Table(kind), SubBatch(new_transactions[p], i[p]))
       IN  IF kind = "booking"
           THEN BookingTransaction' = after /\ UNCHANGED RefundTransaction
           ELSE RefundTransaction' = after /\ UNCHANGED BookingTransaction
    /\ Raise(p, StoreError)
    /\ UNCHANGED << inputs, file_index, start_row, batches, new_transactions, i,
                    call_table >>

\* Mutant: the chunk loop does not move on to the next chunk.
ChunkEndSameChunk(p) ==
    /\ pc[p] = "chunk_end"
    /\ pc' = [pc EXCEPT ![p] = "chunk"]
    /\ bulk_data_bookings' = [bulk_data_bookings EXCEPT ![p] = <<>>]
    /\ bulk_data_refunds' = [bulk_data_refunds EXCEPT ![p] = <<>>]
    /\ accepted_bookings' = [accepted_bookings EXCEPT ![p] = <<>>]
    /\ accepted_refunds' = [accepted_refunds EXCEPT ![p] = <<>>]
    /\ new_transactions' = [new_transactions EXCEPT ![p] = <<>>]
    /\ i' = [i EXCEPT ![p] = 0]
    /\ call_table' = [call_table EXCEPT ![p] = <<>>]
    /\ UNCHANGED << inputs, file_index, start_row, error, tables >>

\* process_dataframe_chunk returns and its locals are gone: the next chunk.
ChunkEnd(p) ==
    /\ pc[p] = "chunk_end"
    /\ pc' = [pc EXCEPT ![p] = "chunk"]
    /\ start_row' = [start_row EXCEPT ![p] = @ + chunk_size]
    /\ bulk_data_bookings' = [bulk_data_bookings EXCEPT ![p] = <<>>]
    /\ bulk_data_refunds' = [bulk_data_refunds EXCEPT ![p] = <<>>]
    /\ accepted_bookings' = [accepted_bookings EXCEPT ![p] = <<>>]
    /\ accepted_refunds' = [accepted_refunds EXCEPT ![p] = <<>>]
    /\ new_transactions' = [new_transactions EXCEPT ![p] = <<>>]
    /\ i' = [i EXCEPT ![p] = 0]
    /\ call_table' = [call_table EXCEPT ![p] = <<>>]
    /\ UNCHANGED << inputs, file_index, error, tables >>

Kinds == {"booking", "refund"}

Next ==
    \E p \in Procs :
        \/ Start(p)
        \/ Return(p)
        \/ ReadExcel(p)
        \/ EmptyExcel(p)
        \/ ReadCsv(p)
        \/ UnsupportedFormat(p)
        \/ SkipEmptyChunk(p)
        \/ FileCompleted(p)
        \/ ChunkRaises(p)
        \/ ProcessChunk(p)
        \/ ChunkEnd(p)
        \/ \E kind \in Kinds :
              \/ NoLoad(p, kind)
              \/ Query(p, kind)
              \/ Insert(p, kind)
              \/ InsertRaises(p, kind)

\* ------------------------------------------------------------- inputs
Banks == {"karur_vysya", "hdfc", "icici"}
TransactionTypes == {"booking", "refund", "both"}
Formats == {"excel", "csv", "pdf"}

\* The cells of a row by the name its column is renamed to.
Fields(order, booking_ref, refund_ref) ==
    [ irctc_order_no |-> order,
      bank_booking_ref_no |-> booking_ref,
      bank_refund_ref_no |-> refund_ref,
      booking_amount |-> Num(10050),
      refund_amount |-> Num(10050),
      transaction_date |-> Text("01-01-2024"),
      credited_date |-> Text("05-01-2024"),
      refund_date |-> Text("01-01-2024"),
      debited_date |-> Text("05-01-2024") ]

PlainFields(k) == Fields(IntText(k), IntText(k), IntText(k))

RowFor(header, fields) ==
    LET columns == ColumnsOf[header]
    IN  [c \in 1..Len(header) |-> fields[columns[c]]]

\* Rows whose cells all parse, with one number k <= n in every key column.
PlainRows(header, n) == { RowFor(header, PlainFields(k)) : k \in 1..n }

\* Rows with every pair of order number and reference number, and rows with
\* one cell that is zero, missing, negative or not a number.
RichFields ==
    { Fields(IntText(o), IntText(r), IntText(r)) : o, r \in 1..MaxKey }
      \cup { [PlainFields(1) EXCEPT !.irctc_order_no = c] :
                c \in {IntText(0), Text("abc"), NaN} }
      \cup { [PlainFields(1) EXCEPT !.bank_booking_ref_no = c,
                                    !.bank_refund_ref_no = c] :
                c \in {Text("abc")} }
      \cup { [PlainFields(1) EXCEPT !.bank_booking_ref_no = NaN] }
      \cup { [PlainFields(1) EXCEPT !.booking_amount = c, !.refund_amount = c] :
                c \in {NaN, Text("abc"), Num(-500)} }
      \cup { [PlainFields(1) EXCEPT !.transaction_date = NaN,
                                    !.refund_date = NaN] }

RichRows(header) == { RowFor(header, f) : f \in RichFields }

Range(f) == { f[x] : x \in DOMAIN f }

SeqsUpTo(S, n) == UNION { [1..m -> S] : m \in 0..n }

SeqMax(ks) == IF ks = <<>> THEN 0 ELSE CHOOSE k \in Range(ks) : \A j \in Range(ks) : j <= k

\* The sequences of t order numbers up to MaxPlainKey that use the numbers in
\* order of first appearance: 1 first, and a number only after every smaller
\* one. The pipeline compares order numbers for equality only, so every
\* sequence of order numbers behaves as one of this form.
RECURSIVE OrderSeqs(_)
OrderSeqs(t) ==
    IF t = 0 THEN { <<>> }
    ELSE UNION { { Append(ks, k) : k \in 1..Min(MaxPlainKey, SeqMax(ks) + 1) } :
                 ks \in OrderSeqs(t - 1) }

\* The ways to cut t rows into n consecutive files, as the last row of each
\* file but the last; a file may be empty.
Cuts(n, t) ==
    { c \in [1..(n - 1) -> 0..t] : \A j \in 1..(n - 2) : c[j] <= c[j + 1] }

FileOf(ks, from, to) ==
    [ header |-> AllColumns,
      rows |-> [r \in 1..(to - from) |->
                  RowFor(AllColumns, PlainFields(ks[from + r]))] ]

CutFiles(ks, n, c) ==
    [f \in 1..n |->
        FileOf(ks, IF f = 1 THEN 0 ELSE c[f - 1],
                   IF f = n THEN Len(ks) ELSE c[f])]

\* The file lists of at most MaxFiles files whose rows have the order numbers
\* of one of the sequences kss.
FilesFrom(kss) ==
    { <<>> } \cup
    UNION { UNION { { CutFiles(ks, n, c) : c \in Cuts(n, Len(ks)) } :
                    n \in 1..MaxFiles } :
            ks \in kss }

\* The file lists with at most MaxFiles files and MaxRows rows in all.
FileLists == FilesFrom(UNION { OrderSeqs(t) : t \in 0..MaxRows })

\* The same with one order number in every row: the file lists of the
\* invocations that fail before a row is looked at.
UnreadFileLists == FilesFrom({ [r \in 1..t |-> 1] : t \in 0..MaxRows })

\* Whether an invocation for bank b and format f gets to look at rows.
ReadsRows(b, f) == b = "karur_vysya" /\ f \in {"excel", "csv"}

\* The data row "01-01-2024","123456","987654","100.50","05-01-2024" of a
\* booking sheet.
ScenarioFields == Fields(IntText(123456), IntText(987654), IntText(987654))
ScenarioRows(header) ==
    IF header = BookingColumns THEN { RowFor(header, ScenarioFields) } ELSE {}

\* The sheets whose rows come in every shape: read as csv for the bank the
\* registry knows, a booking sheet for type booking, a refund sheet for type
\* refund, a sheet with all columns for type both.
RichSheet(header, bank, type, format) ==
    /\ bank = "karur_vysya" /\ format = "csv"
    /\ <<header, type>> \in { <<BookingColumns, "booking">>,
                              <<RefundColumns, "refund">>,
                              <<AllColumns, "both">> }

\* One file of at most MaxChunkRows rows: rows of every shape for the sheets
\* above, plain rows otherwise, one one-cell row for an odd header.
ChunkFiles(header, bank, type, format) ==
    IF header \in OddHeaders
    THEN { << [header |-> header, rows |-> << <<Text("x")>> >>] >> }
    ELSE
    { << [header |-> header, rows |-> rows] >> :
          rows \in SeqsUpTo(IF RichSheet(header, bank, type, format)
                            THEN RichRows(header) \cup ScenarioRows(header)
                            ELSE PlainRows(header, MaxKey),
                            MaxChunkRows) }

\* The headers of the sheets of the chunk specification: the registry
\* layouts, and for one choice of bank, type and format every odd header.
ChunkHeaders(bank, type, format) ==
    Layouts \cup IF bank = "karur_vysya" /\ type = "both" /\ format = "csv"
                 THEN OddHeaders ELSE {}

\* Booking rows in which order numbers and reference numbers collide apart.
ConcRows ==
    PlainRows(BookingColumns, MaxKey)
      \cup { RowFor(BookingColumns, Fields(IntText(1), IntText(r), IntText(r))) :
                r \in 1..MaxKey }

\* One booking file of at most MaxConcRows rows.
ConcFiles ==
    { << [header |-> BookingColumns, rows |-> rows] >> :
          rows \in SeqsUpTo(ConcRows, MaxConcRows) }

InitLocals ==
    /\ pc = [p \in Procs |-> "idle"]
    /\ file_index = [p \in Procs |-> 0]
    /\ start_row = [p \in Procs |-> 0]
    /\ bulk_data_bookings = [p \in Procs |-> <<>>]
    /\ bulk_data_refunds = [p \in Procs |-> <<>>]
    /\ accepted_bookings = [p \in Procs |-> <<>>]
    /\ accepted_refunds = [p \in Procs |-> <<>>]
    /\ new_transactions = [p \in Procs |-> <<>>]
    /\ i = [p \in Procs |-> 0]
    /\ call_table = [p \in Procs |-> <<>>]
    /\ error = [p \in Procs |-> ""]
    /\ BookingTransaction = <<>>
    /\ RefundTransaction = <<>>

\* The pipeline: an invocation on a list of files, then the same invocation
\* again.
Init ==
    /\ tasks = 2
    /\ concurrent = FALSE
    /\ \E b \in Banks, t \in TransactionTypes, f \in Formats :
          \E fs \in IF ReadsRows(b, f) THEN FileLists ELSE UnreadFileLists :
              /\ files = [p \in Procs |-> fs]
              /\ bank_name = [p \in Procs |-> b]
              /\ transaction_type = [p \in Procs |-> t]
              /\ file_format = [p \in Procs |-> f]
    /\ InitLocals

Spec == Init /\ [][Next]_vars

\* One invocation on one file of rows of every shape.
InitChunk ==
    /\ tasks = 1
    /\ concurrent = FALSE
    /\ \E b \in Banks, t \in TransactionTypes, f \in Formats :
          \E header \in ChunkHeaders(b, t, f) :
          \E fs \in ChunkFiles(header, b, t, f) :
              /\ files = [p \in Procs |-> fs]
              /\ bank_name = [p \in Procs |-> b]
              /\ transaction_type = [p \in Procs |-> t]
              /\ file_format = [p \in Procs |-> f]
    /\ InitLocals

SpecChunk == InitChunk /\ [][Next]_vars

\* Two invocations, each on its own booking file, dispatched concurrently.
InitConc ==
    /\ tasks = 2
    /\ concurrent = TRUE
    /\ \E b \in Banks, f \in Formats :
          \E fs1 \in ConcFiles, fs2 \in ConcFiles :
              /\ files = (1 :> fs1) @@ (2 :> fs2)
              /\ bank_name = [p \in Procs |-> b]
              /\ transaction_type = [p \in Procs |-> "booking"]
              /\ file_format = [p \in Procs |-> f]
    /\ InitLocals

SpecConc == InitConc /\ [][Next]_vars

\* The file lists whose order numbers repeat with period MaxKey, so that an
\* order number comes back within a chunk and in a later chunk.
LiveFileLists ==
    FilesFrom({ [r \in 1..t |-> 1 + (r % MaxKey)] : t \in 0..MaxRows })

\* One invocation on a list of files, run by a worker that executes the task
\* step by step until it returns or raises: a step that can be taken is taken.
InitLive ==
    /\ tasks = 1
    /\ concurrent = FALSE
    /\ \E b \in Banks, t \in TransactionTypes, f \in Formats :
          \E fs \in LiveFileLists :
              /\ files = [p \in Procs |-> fs]
              /\ bank_name = [p \in Procs |-> b]
              /\ transaction_type = [p \in Procs |-> t]
              /\ file_format = [p \in Procs |-> f]
    /\ InitLocals

SpecLive == InitLive /\ [][Next]_vars /\ WF_vars(Next)

\* ------------------------------------------------------------- properties
\* The columns of the chunk invocation p is processing, after the rename.
ChunkColumns(p) == ColumnsOf[CurrentFile(p).header]

\* process_dataframe_chunk of invocation p is past its row loops, so that the
\* batches of the chunk are complete.
ChunkDone(p) ==
    pc[p] \in {"load_booking", "insert_booking", "load_refund",
               "insert_refund", "chunk_end"}

Accepted(p, kind) ==
    IF kind = "booking" THEN accepted_bookings[p] ELSE accepted_refunds[p]

\* The order number of row r of the chunk, and its reference number of a kind.
RowOrder(p, r) ==
    convert_to_int(Cell(ChunkColumns(p), ChunkRows(p)[r], "irctc_order_no"))
RefColumn(kind) ==
    IF kind = "booking" THEN "bank_booking_ref_no" ELSE "bank_refund_ref_no"
RowRef(p, kind, r) ==
    convert_to_int(Cell(ChunkColumns(p), ChunkRows(p)[r], RefColumn(kind)))

\* The loop of a kind runs over the chunk of invocation p.
Gate(p, kind) ==
    IF kind = "booking"
    THEN BookingGate(transaction_type[p], ChunkColumns(p))
    ELSE RefundGate(transaction_type[p], ChunkColumns(p))

\* C1: a candidate whose order number is in the table when the loader call
\* starts is in no sub-batch, and no row an insert of the call adds has an
\* order number the table held when the call started.
C1_ExistingExcluded ==
    [][\A p \in Procs : \A kind \in Kinds :
          pc[p] = InsertPc(kind) =>
            /\ \A n \in 1..Len(new_transactions[p]) :
                  new_transactions[p][n].irctc_order_no
                      \notin OrderNos(call_table[p])
            /\ Len(Table(kind)') >= Len(call_table[p])
            /\ \A n \in (Len(call_table[p]) + 1)..Len(Table(kind)') :
                  Table(kind)'[n].irctc_order_no \notin OrderNos(call_table[p])
      ]_vars

\* C1 witness: a loader call is inserting while one of its candidates was
\* excluded because the table already held its order number.
C1_Witness ==
    \E p \in Procs : \E kind \in Kinds :
        /\ pc[p] = InsertPc(kind)
        /\ \E n \in 1..Len(Batch(p, kind)) :
              Batch(p, kind)[n].irctc_order_no \in OrderNos(call_table[p])

\* Row r of the chunk is one that dropna kept.
RowKept(p, r) == r \in Range(Dropna(ChunkColumns(p), ChunkRows(p)))

\* The record the loop of a kind builds from row r of the chunk.
RowData(p, kind, r) ==
    IF kind = "booking"
    THEN BookingData(ChunkColumns(p), ChunkRows(p)[r], bank_name[p])
    ELSE RefundData(ChunkColumns(p), ChunkRows(p)[r], bank_name[p])

\* C2: for every chunk processed with type booking or both, no two accepted
\* booking records have the same irctc_order_no and no two have the same
\* bank_booking_ref_no.
C2_NoSharedKey ==
    \A p \in Procs :
        ChunkDone(p) =>
            \A m, n \in 1..Len(bulk_data_bookings[p]) :
                m # n =>
                  /\ bulk_data_bookings[p][m].irctc_order_no
                         # bulk_data_bookings[p][n].irctc_order_no
                  /\ bulk_data_bookings[p][m].bank_booking_ref_no
                         # bulk_data_bookings[p][n].bank_booking_ref_no

\* C3 as stated: of two rows of a chunk with the same order number, the first
\* in row order is kept and the later one is dropped.
C3_FirstKept ==
    \A p \in Procs : \A kind \in Kinds :
        ChunkDone(p) /\ Gate(p, kind) =>
            \A r1, r2 \in 1..Len(ChunkRows(p)) :
                r1 < r2 /\ Truthy(RowOrder(p, r1))
                        /\ RowOrder(p, r1) = RowOrder(p, r2) =>
                    /\ r1 \in Range(Accepted(p, kind))
                    /\ r2 \notin Range(Accepted(p, kind))

\* Row r of the chunk passes the loop of a kind on its own account: dropna
\* kept it, its order number and its reference number of the kind are
\* non-zero integers, and its reference number is not the order number of a
\* row accepted before it.
RowPasses(p, kind, r) ==
    /\ RowKept(p, r)
    /\ Truthy(RowOrder(p, r))
    /\ Truthy(RowRef(p, kind, r))
    /\ \A a \in Range(Accepted(p, kind)) :
          a < r => RowRef(p, kind, r) # RowOrder(p, a)

\* C3, amended: of the rows of a chunk with the same order number at most one
\* is kept, namely the first in row order that passes on its own account;
\* every other row with that order number is dropped, and the kept record is
\* the one built from the kept row.
C3_FirstPassingKept ==
    \A p \in Procs : \A kind \in Kinds :
        ChunkDone(p) /\ Gate(p, kind) =>
            /\ \A a \in Range(Accepted(p, kind)) :
                  \A r \in 1..Len(ChunkRows(p)) :
                      r # a /\ RowOrder(p, r) = RowOrder(p, a) =>
                        /\ r \notin Range(Accepted(p, kind))
                        /\ r < a => ~RowPasses(p, kind, r)
            /\ \A r \in 1..Len(ChunkRows(p)) :
                  RowPasses(p, kind, r) /\ r \notin Range(Accepted(p, kind)) =>
                      \E a \in Range(Accepted(p, kind)) :
                          a < r /\ RowOrder(p, a) = RowOrder(p, r)
            /\ Len(Batch(p, kind)) = Len(Accepted(p, kind))
            /\ \A n \in 1..Len(Batch(p, kind)) :
                  Batch(p, kind)[n] = RowData(p, kind, Accepted(p, kind)[n])

\* C3 witness: a row is kept, and a later row with its order number, which
\* would pass on its own account, is dropped.
C3_Witness ==
    \E p \in Procs : \E kind \in Kinds :
        /\ ChunkDone(p) /\ Gate(p, kind)
        /\ \E a \in Range(Accepted(p, kind)) :
              \E r \in 1..Len(ChunkRows(p)) :
                  /\ a < r
                  /\ RowOrder(p, r) = RowOrder(p, a)
                  /\ RowPasses(p, kind, r)
                  /\ r \notin Range(Accepted(p, kind))

\* C4: when the insert of sub-batch k raises, what sub-batches 1..k-1 inserted
\* stays in the table and nothing of sub-batch k is added, the error reaches
\* the caller, and the invocation makes no further insert.
C4_SubBatchFailure ==
    [][\A p \in Procs :
          /\ \A kind \in Kinds :
                pc[p] = InsertPc(kind) /\ pc'[p] = "failed" =>
                  /\ error'[p] = StoreError
                  /\ Table(kind)' =
                        bulk_create(call_table[p],
                                    SubSeq(new_transactions[p], 1, i[p]),
                                    UniqueFields(kind))
                  /\ Table(kind)' = Table(kind)
          /\ pc[p] = "failed" =>
                pc'[p] = "failed" /\ i'[p] = i[p] /\ UNCHANGED tables
      ]_vars

\* C4 witness: the insert of the second sub-batch of a call has raised after
\* the first one added rows to the table.
C4_Witness ==
    \E p \in Procs : \E kind \in Kinds :
        /\ pc[p] = "failed" /\ error[p] = StoreError
        /\ i[p] = batch_size
        /\ i[p] < Len(new_transactions[p])
        /\ Len(Table(kind)) > Len(call_table[p])
        /\ new_transactions[p][1] \in Range(Table(kind))

\* C5: once the first run has returned, the run that repeats it on the same
\* files, bank and transaction type changes neither table.
C5_RerunAddsNothing ==
    [][pc[1] = "done" => UNCHANGED tables]_vars

\* C5 witness: the second run has gone through all the files after a first
\* run that filled both tables.
C5_Witness ==
    /\ pc[1] = "done" /\ pc[2] = "done"
    /\ file_index[2] = Len(files[2])
    /\ BookingTransaction # <<>>
    /\ RefundTransaction # <<>>

DistinctKeys(p, kind) ==
    \A r1, r2 \in 1..Len(ChunkRows(p)) :
        r1 # r2 =>
          /\ RowOrder(p, r1) # RowOrder(p, r2)
          /\ RowRef(p, kind, r1) # RowRef(p, kind, r2)
          /\ RowRef(p, kind, r1) # RowOrder(p, r2)

\* C7: in a chunk whose rows have pairwise distinct keys, a row produces a
\* record of a kind exactly when its order number and its reference number of
\* the kind both convert to non-null integers.
C7_RecordIffKeysParse ==
    \A p \in Procs : \A kind \in Kinds :
        ChunkDone(p) /\ Gate(p, kind) /\ DistinctKeys(p, kind) =>
            \A r \in 1..Len(ChunkRows(p)) :
                r \in Range(Accepted(p, kind))
                  <=> ~RowOrder(p, r).isnull /\ ~RowRef(p, kind, r).isnull

AmountColumn(kind) ==
    IF kind = "booking" THEN "booking_amount" ELSE "refund_amount"

\* C8: a record built from a row whose amount cell is missing has amount 0.0.
C8_MissingAmountIsZero ==
    \A p \in Procs : \A kind \in Kinds :
        ChunkDone(p) /\ Gate(p, kind) =>
            \A n \in 1..Len(Batch(p, kind)) :
                IsNa(Cell(ChunkColumns(p), ChunkRows(p)[Accepted(p, kind)[n]],
                          AmountColumn(kind)))
                  => Batch(p, kind)[n][AmountColumn(kind)] = Float(0)

\* C9: no invocation fails because a field of a row does not parse.
C9_ParseNeverFatal ==
    \A p \in Procs : pc[p] = "failed" => error[p] # ValueErrorFloat

\* C10: an invocation that is given a file without data rows, as excel or as
\* csv, does not return normally.
C10_EmptyFileIsFatal ==
    \A p \in Procs :
        pc[p] = "done" =>
            \A f \in 1..Len(files[p]) : Len(files[p][f].rows) # 0

\* C11: an invocation whose format tag is neither excel nor csv and whose
\* file list is not empty reads no file, can only fail, fails with the
\* unsupported-format error, and persists no record.
C11_UnsupportedFormatFails ==
    \A p \in Procs :
        file_format[p] \notin {"excel", "csv"} /\ files[p] # <<>> =>
          /\ pc[p] \in {"idle", "file", "failed"}
          /\ pc[p] = "failed" => error[p] = ValueErrorFormat
          /\ pc[p] = "file" =>
                /\ ENABLED UnsupportedFormat(p)
                /\ ~ENABLED Return(p)
                /\ ~ENABLED ReadExcel(p) /\ ~ENABLED EmptyExcel(p)
                /\ ~ENABLED ReadCsv(p)
          /\ file_index[p] = 0
          /\ BookingTransaction = <<>> /\ RefundTransaction = <<>>

\* C11 witness: an invocation on two files with data rows has failed with
\* the unsupported-format error.
C11_Witness ==
    \E p \in Procs :
        /\ pc[p] = "failed" /\ error[p] = ValueErrorFormat
        /\ Len(files[p]) = 2
        /\ \A f \in 1..2 : files[p][f].rows # <<>>

\* C12: for a bank that BANK_MAPPINGS has no entry for, hdfc and icici
\* included, a chunk that is processed fails at the lookup with a KeyError
\* that reaches the caller; no loader call is made and no record is
\* persisted.
C12_UnknownBankFails ==
    \A p \in Procs :
        bank_name[p] \in {"hdfc", "icici"} =>
          /\ ~ChunkDone(p)
          /\ pc[p] = "chunk" /\ start_row[p] < total_rows(p) =>
                ENABLED ChunkRaises(p) /\ ~ENABLED ProcessChunk(p)
          /\ pc[p] = "failed" /\ file_format[p] \in {"excel", "csv"} =>
                error[p] = KeyErrorBank
          /\ BookingTransaction = <<>> /\ RefundTransaction = <<>>

\* C12 witness: invocations for hdfc and for icici have failed at the lookup
\* on a chunk with data rows.
C12_Witness ==
    \E p \in Procs :
        /\ bank_name[p] \in {"hdfc", "icici"}
        /\ pc[p] = "failed" /\ error[p] = KeyErrorBank
        /\ ChunkRows(p) # <<>>

\* Sequence s is an initial part of sequence t.
IsPrefix(s, t) == Len(s) <= Len(t) /\ SubSeq(t, 1, Len(s)) = s

\* C13: an invocation goes through its files one by one in list order; a
\* step that raises fails the invocation at the file it is at and leaves the
\* tables as they are; a failed invocation reads no further file, retries
\* nothing and writes nothing; and no step removes a persisted record.
C13_FileFailureAborts ==
    [][\A p \in Procs :
          /\ file_index'[p] \in {file_index[p], file_index[p] + 1}
          /\ file_index'[p] # file_index[p] =>
                pc[p] = "chunk" /\ start_row[p] >= total_rows(p)
          /\ error'[p] # error[p] =>
                /\ pc'[p] = "failed"
                /\ file_index'[p] = file_index[p]
                /\ UNCHANGED tables
          /\ pc[p] = "failed" =>
                /\ pc'[p] = "failed"
                /\ file_index'[p] = file_index[p]
                /\ start_row'[p] = start_row[p]
                /\ UNCHANGED tables
          /\ \A kind \in Kinds : IsPrefix(Table(kind), Table(kind)')
      ]_vars

\* C13 witness: an invocation has failed at its first file after records of
\* that file were committed, and the second file, which has data rows, was
\* never read.
C13_Witness ==
    \E p \in Procs :
        /\ pc[p] = "failed"
        /\ file_index[p] = 0
        /\ Len(files[p]) = 2
        /\ files[p][2].rows # <<>>
        /\ BookingTransaction # <<>>

\* The invocation of the end-to-end scenario: one csv file for karur_vysya and
\* type booking, with the five booking columns and the one data row.
IsScenario(p) ==
    /\ bank_name[p] = "karur_vysya"
    /\ transaction_type[p] = "booking"
    /\ file_format[p] = "csv"
    /\ files[p] = << [header |-> BookingColumns,
                      rows |-> << RowFor(BookingColumns, ScenarioFields) >>] >>

\* C14: the scenario, started on empty tables, never writes a refund, can fail
\* only on an error of the store, and when it has returned the booking table
\* holds exactly one record, with order number 123456, booking reference
\* 987654, amount 100.50 and bank code 40.
C14_EndToEndBooking ==
    \A p \in Procs :
        IsScenario(p) =>
          /\ RefundTransaction = <<>>
          /\ Len(BookingTransaction) <= 1
          /\ pc[p] = "failed" => error[p] = StoreError
          /\ pc[p] = "done" =>
                /\ Len(BookingTransaction) = 1
                /\ BookingTransaction[1].irctc_order_no = SomeInt(123456)
                /\ BookingTransaction[1].bank_booking_ref_no = SomeInt(987654)
                /\ BookingTransaction[1].booking_amount = Float(10050)
                /\ BookingTransaction[1].bank_code = SomeInt(40)
                /\ BookingTransaction[1].transaction_date = Timestamp(20240101)
                /\ ~BookingTransaction[1].credited_date.nat

\* C14 witness: the scenario has returned with a record in the booking table.
C14_Witness ==
    \E p \in Procs :
        IsScenario(p) /\ pc[p] = "done" /\ BookingTransaction # <<>>

Amount(kind, record) ==
    IF kind = "booking" THEN record.booking_amount ELSE record.refund_amount

\* C15: every record in the booking table and in the refund table has an
\* amount that is absent or not negative.
C15_AmountsNonNegative ==
    \A kind \in Kinds :
        \A n \in 1..Len(Table(kind)) :
            Amount(kind, Table(kind)[n]).nan
              \/ Amount(kind, Table(kind)[n]).v >= 0

\* C16: no booking record handed to the loader lacks its transaction date or
\* its credited date.
C16_DatelessBookingRejected ==
    \A p \in Procs :
        ChunkDone(p) =>
            \A n \in 1..Len(bulk_data_bookings[p]) :
                /\ ~bulk_data_bookings[p][n].transaction_date.nat
                /\ ~bulk_data_bookings[p][n].credited_date.nat

\* The tokens of a name that are neither whitespace nor '.' nor '_', in
\* their order.
RECURSIVE OrdinaryTokens(_)
OrdinaryTokens(name) ==
    IF name = <<>> THEN <<>>
    ELSE IF Head(name) \in Whitespace \cup Punctuation
         THEN OrdinaryTokens(Tail(name))
         ELSE <<Head(name)>> \o OrdinaryTokens(Tail(name))

\* Cleaning the cleaned name gives the cleaned name again, and the cleaned
\* name has no whitespace, no '.' and no '_' and is the rest of the name in
\* its order and case.
CleansWell(s) ==
    LET r == CleanedName(s)
    IN  /\ CleanedName(r) = r
        /\ clean_column_name(r) = clean_column_name(s)
        /\ \A j \in 1..Len(r) : r[j] \notin Whitespace \cup Punctuation
        /\ r = OrdinaryTokens(s)

\* C17: clean_column_name is idempotent on every column name of a chunk that
\* process_dataframe_chunk is given, and its result has no whitespace, no '.'
\* and no '_' and keeps every other character in its order and case.
C17_CleanIdempotent ==
    \A p \in Procs :
        (pc[p] = "chunk" /\ start_row[p] < total_rows(p)) =>
            \A c \in 1..Len(CurrentFile(p).header) :
                CleansWell(CurrentFile(p).header[c])

\* C17 witness: a chunk was processed whose sheet has a column name with
\* whitespace, a '.' or '_', and a letter in it.
C17_Witness ==
    \E p \in Procs :
        /\ pc[p] = "failed" /\ error[p] = KeyErrorColumn
        /\ \E c \in 1..Len(CurrentFile(p).header) :
              LET s == CurrentFile(p).header[c]
              IN  /\ \E j \in 1..Len(s) : s[j] \in Whitespace
                  /\ \E j \in 1..Len(s) : s[j] \in Punctuation
                  /\ \E j \in 1..Len(s) : s[j] \notin Whitespace \cup Punctuation
                  /\ CleanedName(s) # s

\* Sub-batch number n (from 0) of a list of the loader: the records at the
\* positions n * batch_size + 1 .. (n + 1) * batch_size that the list has.
Slice(new, n) ==
    [j \in 1..Min(batch_size, Len(new) - n * batch_size) |->
        new[n * batch_size + j]]

\* The table after the sub-batches 0 .. n - 1 were committed one after the
\* other, in order, on the table the loader call found.
RECURSIVE CommittedUpTo(_, _, _, _)
CommittedUpTo(table, new, n, unique) ==
    IF n = 0 THEN table
    ELSE bulk_create(CommittedUpTo(table, new, n - 1, unique),
                     Slice(new, n - 1), unique)

\* C18: in a loader call the list that is inserted is the non-excluded
\* candidates in candidate order; the insert loop stands at a multiple of
\* batch_size inside the list, with the sub-batches before it committed in
\* order; its step inserts exactly the next sub-batch (batch_size records,
\* fewer only when it is the last) in one transaction and moves on by
\* batch_size, or fails and leaves the table alone; and the loop is left only
\* when the last sub-batch was inserted.
C18_SubBatches ==
    [][\A p \in Procs : \A kind \in Kinds :
          pc[p] = InsertPc(kind) =>
             LET new == new_transactions[p]
                 n == i[p] \div batch_size
                 last == (n + 1) * batch_size >= Len(new)
             IN  /\ new = new_transactions_of(call_table[p], Batch(p, kind))
                 /\ i[p] = n * batch_size
                 /\ i[p] < Len(new)
                 /\ Len(Slice(new, n)) <= batch_size
                 /\ ~last => Len(Slice(new, n)) = batch_size
                 /\ Table(kind) =
                        CommittedUpTo(call_table[p], new, n, UniqueFields(kind))
                 /\ \/ /\ pc'[p] = "failed"
                       /\ UNCHANGED tables
                    \/ /\ Table(kind)' =
                              bulk_create(Table(kind), Slice(new, n),
                                          UniqueFields(kind))
                       /\ i'[p] = i[p] + batch_size
                       /\ new_transactions'[p] = new
                       /\ pc'[p] = IF last THEN AfterLoad(kind)
                                   ELSE InsertPc(kind)]_vars

\* C18 witness: the first sub-batch of a loader call is committed and the
\* second one, which is the last and is shorter, is about to be inserted.
C18_Witness ==
    \E p \in Procs : \E kind \in Kinds :
        /\ pc[p] = InsertPc(kind)
        /\ i[p] = batch_size
        /\ Len(new_transactions[p]) > batch_size
        /\ Len(new_transactions[p]) < 2 * batch_size
        /\ Len(Table(kind)) = Len(call_table[p]) + batch_size

\* The moves of the orchestrator: a file is opened and its chunks are read
\* ("file", "chunk"), a chunk is normalized, converted and deduplicated in
\* process_dataframe_chunk (the step from "chunk" to "load_booking"), its two
\* batches are loaded ("load_", "insert_"), the chunk is over ("chunk_end"),
\* and the task returns ("done") or raises ("failed").
Moves ==
    { <<"idle", "file">>,
      <<"file", "chunk">>, <<"file", "done">>, <<"file", "failed">>,
      <<"chunk", "load_booking">>, <<"chunk", "chunk_end">>,
      <<"chunk", "file">>, <<"chunk", "failed">>,
      <<"load_booking", "insert_booking">>, <<"load_booking", "load_refund">>,
      <<"insert_booking", "insert_booking">>,
      <<"insert_booking", "load_refund">>, <<"insert_booking", "failed">>,
      <<"load_refund", "insert_refund">>, <<"load_refund", "chunk_end">>,
      <<"insert_refund", "insert_refund">>,
      <<"insert_refund", "chunk_end">>, <<"insert_refund", "failed">>,
      <<"chunk_end", "chunk">> }

\* The batch of a kind that process_dataframe_chunk builds from the chunk
\* invocation p is at.
BatchOfChunk(p, kind) ==
    IF kind = "booking" THEN ChunkOf(p).bookings.bulk
    ELSE ChunkOf(p).refunds.bulk

\* The records a step adds to the table of a kind.
Added(kind) ==
    { Table(kind)'[n] : n \in (Len(Table(kind)) + 1)..Len(Table(kind)') }

\* C19: the orchestrator moves only along the state machine, in which the
\* loading of a chunk comes after its normalization, conversion and
\* deduplication and before the next chunk is read; a record is written only
\* while a chunk is loaded and is one of the records built from that chunk of
\* the current file; files are taken in order and never again; a task that
\* returned or raised stays so and writes nothing; and every task that was
\* started eventually returns or raises.
C19_StateMachine ==
    /\ [][\A p \in Procs :
             /\ pc'[p] # pc[p] => <<pc[p], pc'[p]>> \in Moves
             /\ file_index'[p] \in {file_index[p], file_index[p] + 1}
             /\ start_row'[p] # start_row[p] =>
                    \/ pc[p] = "file" /\ start_row'[p] = 0
                    \/ pc[p] = "chunk_end"
                          /\ start_row'[p] = start_row[p] + chunk_size
                    \/ pc[p] = "chunk" /\ total_rows(p) = 0
             /\ pc[p] = "chunk" /\ pc'[p] = "load_booking" =>
                    \A kind \in Kinds : Batch(p, kind)' = BatchOfChunk(p, kind)
             /\ pc[p] \in {"load_booking", "insert_booking", "load_refund",
                           "insert_refund"} =>
                    /\ file_index'[p] = file_index[p]
                    /\ start_row'[p] = start_row[p]
                    /\ \A kind \in Kinds :
                           /\ Batch(p, kind) = BatchOfChunk(p, kind)
                           /\ Batch(p, kind)' = Batch(p, kind)
             /\ pc[p] \in {"done", "failed"} =>
                    pc'[p] = pc[p] /\ UNCHANGED tables
             /\ \A kind \in Kinds :
                    Table(kind)' # Table(kind) =>
                       /\ Len(Table(kind)') > Len(Table(kind))
                       /\ SubSeq(Table(kind)', 1, Len(Table(kind))) = Table(kind)
                       /\ \E q \in Procs :
                              /\ pc[q] = InsertPc(kind)
                              /\ Added(kind) \subseteq Range(Batch(q, kind))
            ]_vars
    /\ \A p \in Procs : (pc[p] # "idle") ~> (pc[p] \in {"done", "failed"})

\* C19 witness: a task has returned after the two chunks of a file, the
\* second read after the first was loaded, and a record is stored.
C19_Witness ==
    \E p \in Procs :
        /\ pc[p] = "done"
        /\ Len(files[p]) = 1
        /\ Len(files[p][1].rows) > chunk_size
        /\ file_index[p] = 1
        /\ start_row[p] >= Len(files[p][1].rows)
        /\ BookingTransaction # <<>>

\* C20: the loops of a chunk start with empty seen sets, so a row that passes
\* on its own account and has no accepted row with its order number before it
\* in its chunk is accepted and its record is in the batch when the loader
\* of its kind is reached, whatever earlier chunks held; in a loader call a candidate whose
\* order number is already stored is not inserted; and a step adds no record
\* whose order number is stored and changes no stored record, so the record
\* of the earlier chunk is the one that is persisted.
C20_SeenSetsPerChunk ==
    [][\A p \in Procs : \A kind \in Kinds :
          /\ pc[p] = LoadPc(kind) /\ Gate(p, kind) =>
                \A r \in 1..Len(ChunkRows(p)) :
                    (/\ RowPasses(p, kind, r)
                     /\ \A a \in Range(Accepted(p, kind)) :
                           a < r => RowOrder(p, a) # RowOrder(p, r)) =>
                        /\ r \in Range(Accepted(p, kind))
                        /\ RowData(p, kind, r) \in Range(Batch(p, kind))
          /\ pc[p] = InsertPc(kind) =>
                \A n \in 1..Len(Batch(p, kind)) :
                    Batch(p, kind)[n].irctc_order_no
                        \in OrderNos(call_table[p]) =>
                      Batch(p, kind)[n] \notin Range(new_transactions[p])
          /\ Len(Table(kind)') >= Len(Table(kind))
          /\ SubSeq(Table(kind)', 1, Len(Table(kind))) = Table(kind)
          /\ \A n \in (Len(Table(kind)) + 1)..Len(Table(kind)') :
                Table(kind)'[n].irctc_order_no \notin OrderNos(Table(kind))
      ]_vars

\* C20 witness: in the first run, the second chunk of the first file has a
\* booking row whose order number was stored from the first chunk; the row
\* was accepted and handed to the loader, which left it out.
C20_Witness ==
    /\ pc[1] = "load_refund"
    /\ file_index[1] = 0
    /\ start_row[1] = chunk_size
    /\ bulk_data_bookings[1] # <<>>
    /\ bulk_data_bookings[1][1].irctc_order_no \in OrderNos(call_table[1])
    /\ call_table[1] = BookingTransaction
    /\ bulk_data_bookings[1][1] \notin Range(new_transactions[1])

\* File f of invocation p has been read and its chunks processed: the file
\* loop is past it, or it is the file the loop is at and it has no data row.
FileRead(p, f) ==
    \/ f <= file_index[p]
    \/ f = file_index[p] + 1 /\ files[p][f].rows = <<>>

\* C21: an invocation that has returned has read every file of its list and
\* processed every chunk of it: no file is left out because of a file before
\* it in the list.
C21_ReturnMeansAllRead ==
    \A p \in Procs :
        pc[p] = "done" => \A f \in 1..Len(files[p]) : FileRead(p, f)

\* The seen set of the loop of a kind when it comes to row r of the chunk:
\* the order numbers of the rows accepted before r.
SeenBefore(p, kind, r) ==
    { RowOrder(p, a) : a \in { x \in Range(Accepted(p, kind)) : x < r } }

\* The loop of a kind skips row r of the chunk as a duplicate: the row is in
\* the frame after dropna and the duplicate test of the loop holds for it.
DroppedAsDuplicate(p, kind, r) ==
    /\ RowKept(p, r)
    /\ IF kind = "booking"
       THEN IsDuplicateBooking(RowOrder(p, r), RowRef(p, kind, r),
                               SeenBefore(p, kind, r))
       ELSE IsDuplicateRefund(RowOrder(p, r), RowRef(p, kind, r),
                              SeenBefore(p, kind, r))

\* C22: a row that is skipped as a duplicate has, among the rows of its chunk
\* accepted before it for the same kind, one with its order number or one
\* with its reference number of the kind.
C22_DroppedForSameKeyOnly ==
    \A p \in Procs : \A kind \in Kinds :
        ChunkDone(p) /\ Gate(p, kind) =>
            \A r \in 1..Len(ChunkRows(p)) :
                DroppedAsDuplicate(p, kind, r) =>
                    \E a \in Range(Accepted(p, kind)) :
                        /\ a < r
                        /\ \/ RowOrder(p, a) = RowOrder(p, r)
                           \/ RowRef(p, kind, a) = RowRef(p, kind, r)

\* The kinds an invocation with a transaction type may write.
KindsOf(type) ==
    IF type = "both" THEN Kinds
    ELSE IF type \in Kinds THEN {type} ELSE {}

\* C23: an invocation builds no batch and makes no insert for a kind that its
\* transaction type does not select, whatever columns its file has, and a
\* table changes only in an insert step of an invocation whose type selects
\* its kind: type booking leaves the refund table as it is, type refund the
\* booking table, and only type both writes to both.
C23_TypeBoundsWrites ==
    [][\A kind \in Kinds :
          /\ \A p \in Procs :
                kind \notin KindsOf(transaction_type[p]) =>
                    /\ Batch(p, kind) = <<>>
                    /\ pc[p] # InsertPc(kind)
          /\ Table(kind)' # Table(kind) =>
                \E p \in Procs :
                    /\ pc[p] = InsertPc(kind)
                    /\ kind \in KindsOf(transaction_type[p])
          /\ (\A p \in Procs : kind \notin KindsOf(transaction_type[p])) =>
                Table(kind)' = Table(kind)
      ]_vars

\* C23 witness: an invocation with type booking has returned after a file
\* that has the refund columns as well; booking records are stored and the
\* refund table is empty.
C23_Witness ==
    \E p \in Procs :
        /\ pc[p] = "done"
        /\ transaction_type[p] = "booking"
        /\ Len(files[p]) = 1
        /\ has_required_refund_columns(ColumnsOf[files[p][1].header])
        /\ files[p][1].rows # <<>>
        /\ BookingTransaction # <<>>
        /\ RefundTransaction = <<>>

====
